---- MODULE Spec2Model ----
(***************************************************************************)
(* Salesforce MCP gateway: the session table and HTTP routes, the shared   *)
(* Salesforce connection cache, and the tool handlers, of the two server   *)
(* variants of the repository:                                             *)
(*   "http"  src/server.js          (Streamable HTTP, /mcp, API key gate)  *)
(*   "sse"   src/unnamed/part_000   (SSE, /sse and /messages, no gate)     *)
(* A handler runs atomically up to its next await; what follows the await  *)
(* is a separate action (the continuation).                                *)
(***************************************************************************)
EXTENDS Integers, Sequences, FiniteSets, TLC

(* ------------------------------ bounds -------------------------------- *)
MaxSessions == 2
MaxCalls == 2
\* DELETE handlers of one session suspended at close() at the same time
MaxClosers == 2
\* sessions opened in SpecTools
ToolSessions == 1
\* length of the objects list of a search_records call in SpecSearch
MaxObjects == 2

(* ------------------------------ values -------------------------------- *)
UuidNames == <<"u1", "u2", "u3", "u4">>
\* values randomUUID() can return
UUIDs == {UuidNames[i] : i \in 1..MaxSessions}
\* names every JavaScript object inherits from Object.prototype
ProtoKeys == {"constructor"}
\* the mcp-session-id header (or sessionId query parameter) is absent
NoSid == "none"
SessionIds == UUIDs \cup ProtoKeys
HeaderSids == SessionIds \cup {NoSid}

Variants == {"http", "sse"}
Strategies == {"refresh", "access", "password"}
\* process.env: is SALESFORCE_REFRESH_TOKEN set, is SALESFORCE_ACCESS_TOKEN set
Envs == [refreshToken : BOOLEAN, accessToken : BOOLEAN]

\* strings are sequences of tokens; "Bearer " is one token
Bearer == "Bearer "
Secret == <<"se", "cret">>
NoString == <<>>
ApiKeys == {NoString, Secret}

ToolNames == {"soql_query", "get_object_metadata", "create_record",
              "update_record", "search_records"}
UnknownNames == {"bogus"}
CallNames == ToolNames \cup UnknownNames

Absent == "absent"
Keys == {"Id", "Name"}
RecordIds == {"r1"}
DataMaps == {d \in [Keys -> {Absent, "r1", "r2", "x"}] :
               /\ d["Id"] \in {Absent, "r1", "r2"}
               /\ d["Name"] \in {Absent, "x"}}
NoData == [k \in Keys |-> Absent]
\* the objects argument is not given
NoList == <<Absent>>
ObjectNames == {"Account", "Contact", "Lead"}
ObjectLists == UNION {[1..n -> ObjectNames] : n \in 0..MaxObjects}
SearchTerms == {"acme", "a}b"}
NoArgs == [recordId |-> Absent, data |-> NoData, searchTerm |-> Absent,
           objects |-> NoList]
ArgsOf(name) ==
  CASE name = "update_record" ->
         {[NoArgs EXCEPT !.recordId = r, !.data = d] : r \in RecordIds, d \in DataMaps}
    [] name = "search_records" -> {[NoArgs EXCEPT !.searchTerm = "acme"]}
    [] OTHER -> {NoArgs}

AuthMsg == "invalid_grant"
BackendMsg == "MALFORMED_QUERY"
NoMsg == "nothing"

NoConn == 0

\* Authorization headers and api_key query parameters a request may carry
Headers == {NoString, <<Bearer>> \o Secret, Secret, <<Bearer, "bad">>,
            <<"se", Bearer, "cret">>}
Queries == {NoString, Secret, <<"bad">>}
\* the pairs of the two that the requests of Spec carry
Creds == {<<NoString, NoString>>, <<<<Bearer>> \o Secret, NoString>>,
          <<NoString, Secret>>, <<<<Bearer, "bad">>, Secret>>,
          <<Secret, NoString>>}
Bodies == {"initialize", "tools/call", "other"}
Calls == 1..MaxCalls

VARIABLES
  variant,       \* which entry file runs
  apiKey,        \* process.env.MCP_API_KEY (NoString: not set)
  env,           \* the credentials the environment configures
  transports,    \* own properties of the transports object: sid -> transport
  tstate,        \* the transport objects constructed so far, by number
  issued,        \* the identifiers randomUUID() has returned, in order
  inflight,      \* handlers suspended at server.connect / transport.close
  sfConnection,  \* the cached connection object (NoConn: null)
  connCount,     \* jsforce.Connection objects returned by connectToSalesforce
  calls,         \* tool calls in progress
  sent,          \* the most recent request made to the backend
  ret,           \* the most recent tool call result
  provider,      \* the most recent return of connectToSalesforce
  last           \* the most recent HTTP event and its outcome

vars == <<variant, apiKey, env, transports, tstate, issued, inflight,
          sfConnection, connCount, calls, sent, ret, provider, last>>

sessionVars == <<transports, tstate, issued, inflight>>
callVars == <<sfConnection, connCount, calls, sent, ret, provider>>
config == <<variant, apiKey, env>>

Range(s) == {s[i] : i \in 1..Len(s)}

(* ------------------------- the session table -------------------------- *)
\* a lookup that finds inherited properties only
TruthyInherited(tbl, sid) == sid \in ProtoKeys

\* transports[sessionId] as a condition: an own property, or a property
\* inherited from Object.prototype (transports is created by {}), is truthy
Truthy(tbl, sid) == sid \in DOMAIN tbl \/ sid \in ProtoKeys

\* the value is a transport (has handleRequest / handlePostMessage / close)
IsTransport(tbl, sid) == sid \in DOMAIN tbl

\* the transport stored under the request's (absent) session header instead
\* of the new identifier
RegisterUnderHeader(tbl, id, t) ==
  [x \in DOMAIN tbl \cup {NoSid} |-> IF x = NoSid THEN t ELSE tbl[x]]

\* transports[newSessionId] = transport
Register(tbl, id, t) ==
  [x \in DOMAIN tbl \cup {id} |-> IF x = id THEN t ELSE tbl[x]]

\* a delete that empties the table
DeleteAll(tbl, id) == [x \in {} |-> tbl[x]]

\* delete transports[id]
Delete(tbl, id) == [x \in DOMAIN tbl \ {id} |-> tbl[x]]

\* randomUUID(): an identifier that was not returned before. The identifiers
\* are opaque, so the i-th one returned is named UuidNames[i].
FreshIds ==
  IF Len(issued) < MaxSessions THEN {UuidNames[Len(issued) + 1]} \ Range(issued)
  ELSE {}

(* --------------------------- the API key gate ------------------------- *)
\* authHeader.replace('Bearer ', ''): the first occurrence is removed
ReplaceFirst(s) ==
  LET at == {i \in 1..Len(s) : s[i] = Bearer}
  IN IF at = {} THEN s
     ELSE LET i == CHOOSE j \in at : \A k \in at : j <= k
          IN SubSeq(s, 1, i - 1) \o SubSeq(s, i + 1, Len(s))

\* authHeader?.replace('Bearer ', '') || queryKey
ProvidedKey(hdr, query) ==
  IF ReplaceFirst(hdr) # NoString THEN ReplaceFirst(hdr) ELSE query

\* authenticateRequest calls next()
Admitted(hdr, query) ==
  \/ apiKey = NoString
  \/ ProvidedKey(hdr, query) = apiKey

(* ----------------------- the connection provider --------------------- *)
\* the if chain with the access token tested before the refresh token
ChosenStrategyAccessFirst(e) ==
  IF e.accessToken THEN "access"
  ELSE IF e.refreshToken THEN "refresh"
  ELSE "password"

\* the if chain of connectToSalesforce: the branch a call takes
ChosenStrategy(e) ==
  IF e.refreshToken THEN "refresh"
  ELSE IF e.accessToken THEN "access"
  ELSE "password"

\* the backend round trips a branch awaits before its return
RoundTrips(s) ==
  CASE s = "refresh" -> <<"identity">>
    [] s = "access" -> <<>>
    [] OTHER -> <<"login">>

\* what a call of connectToSalesforce did: the branches it entered, the round
\* trips it made, and how it ended ("returned" or "threw")
NoProvider == [tried |-> <<>>, trips |-> <<>>, outcome |-> "none"]

(* ------------------------------ the tools ----------------------------- *)
\* { ...base, ...ext }: a key of ext replaces the same key of base
ObjectSpread(base, ext) ==
  [k \in Keys |-> IF ext[k] # Absent THEN ext[k] ELSE base[k]]

\* const updateData = { Id: recordId, ...data }
UpdateData(recordId, data) ==
  ObjectSpread([k \in Keys |-> IF k = "Id" THEN recordId ELSE Absent], data)

BackendOp(name) ==
  CASE name = "soql_query" -> "query"
    [] name = "get_object_metadata" -> "describe"
    [] name = "create_record" -> "create"
    [] name = "update_record" -> "update"
    [] OTHER -> "search"

\* Array.prototype.join(', ')
RECURSIVE Join(_)
Join(list) ==
  IF Len(list) = 0 THEN <<>>
  ELSE IF Len(list) = 1 THEN list
  ELSE <<Head(list), ", ">> \o Join(Tail(list))

DefaultObjects == <<"Account", "Contact", "Opportunity">>

\* the default taken also for a list that is empty
SearchObjectsOrEmpty(objects) ==
  IF objects = NoList \/ objects = <<>> THEN DefaultObjects ELSE objects

\* objects || ['Account', 'Contact', 'Opportunity']: every array is truthy
SearchObjects(objects) ==
  IF objects = NoList THEN DefaultObjects ELSE objects

\* `FIND {${searchTerm}} IN ALL FIELDS RETURNING ${searchObjects.join(', ')}`
Sosl(searchTerm, objects) ==
  <<"FIND {", searchTerm, "} IN ALL FIELDS RETURNING ">> \o Join(SearchObjects(objects))

\* the request a tool sends through connection conn
BackendRequest(name, args, conn) ==
  [op |-> BackendOp(name), conn |-> conn, recordId |-> args.recordId,
   data |-> args.data, searchTerm |-> args.searchTerm, objects |-> args.objects,
   payload |-> CASE name = "update_record" -> UpdateData(args.recordId, args.data)
                 [] name = "create_record" -> args.data
                 [] OTHER -> NoData,
   sosl |-> IF name = "search_records" THEN Sosl(args.searchTerm, args.objects)
            ELSE NoString]

NoSent == [op |-> "none", conn |-> NoConn, recordId |-> Absent,
           data |-> NoData, searchTerm |-> Absent, objects |-> NoList,
           payload |-> NoData, sosl |-> NoString]

\* { content: [{ type: 'text', text: JSON.stringify(...) }] }
Success == [isError |-> FALSE, text |-> <<"JSON">>]

\* the catch clause without its isError flag
CatchResultUnflagged(msg) == [isError |-> FALSE, text |-> <<"Error: ", msg>>]

\* the catch clause of the CallToolRequestSchema handler
CatchResult(msg) == [isError |-> TRUE, text |-> <<"Error: ", msg>>]

\* the default case of the switch
UnknownToolResult(name) == [isError |-> TRUE, text |-> <<"Unknown tool: ", name>>]

\* McpServer turns what a server.tool callback throws into a tool error
SdkToolError(msg) == [isError |-> TRUE, text |-> <<msg>>]

\* McpServer finds no tool registered under the name
SdkUnknownTool(name) == [isError |-> TRUE, text |-> <<"Tool ", name, " not found">>]

ErrorResult(msg) == IF variant = "sse" THEN CatchResult(msg) ELSE SdkToolError(msg)

NoResult == [isError |-> FALSE, text |-> <<>>]
\* name is the name the handler looked up, while it still holds it
NoRet == [name |-> "none", threw |-> NoMsg,
          authFailed |-> FALSE, result |-> NoResult]
Ret(c, threw, authFailed, result) ==
  [name |-> calls[c].name, threw |-> threw,
   authFailed |-> authFailed, result |-> result]

Idle == [pc |-> "idle", name |-> "none", args |-> NoArgs, auths |-> 0,
         tried |-> <<>>]
Done == [Idle EXCEPT !.pc = "done"]

(* -------------------------------- Init -------------------------------- *)
\* an HTTP event: a request reaching its handler ("arrive") or a suspended
\* handler going on after its await ("resume"); assigned is the identifier
\* of the session the request created
NoEvent == [method |-> "none", step |-> "none", sid |-> NoSid, hdr |-> NoString,
            query |-> NoString, body |-> "none", assigned |-> NoSid,
            outcome |-> "none"]
Event(method, step, sid, hdr, query, body, assigned, outcome) ==
  [method |-> method, step |-> step, sid |-> sid, hdr |-> hdr, query |-> query,
   body |-> body, assigned |-> assigned, outcome |-> outcome]

\* const transports = {}; let sfConnection = null; nothing in flight
Start ==
  /\ transports = [x \in {} |-> 0]
  /\ tstate = <<>>
  /\ issued = <<>>
  /\ inflight = {}
  /\ sfConnection = NoConn
  /\ connCount = 0
  /\ calls = [c \in Calls |-> Idle]
  /\ sent = NoSent
  /\ ret = NoRet
  /\ provider = NoProvider
  /\ last = NoEvent

\* The environment of the routes: either entry file, MCP_API_KEY set or not.
\* No route reads the Salesforce credentials.
Init ==
  /\ variant \in Variants
  /\ apiKey \in ApiKeys
  /\ env = [refreshToken |-> FALSE, accessToken |-> TRUE]
  /\ Start

(* ------------------------------ events -------------------------------- *)
\* last, sent and ret hold what the handler that ran last did: the response
\* it wrote, the backend request it made, the result it returned. They are
\* taken (and emptied) before the next handler runs: the event loop runs one
\* handler at a time.
Quiet == last = NoEvent /\ sent = NoSent /\ ret = NoRet /\ provider = NoProvider

Observed ==
  /\ ~Quiet
  /\ last' = NoEvent
  /\ sent' = NoSent
  /\ ret' = NoRet
  /\ provider' = NoProvider
  /\ UNCHANGED <<config, sessionVars, sfConnection, connCount, calls>>

(* ----------------------------- tool calls ----------------------------- *)
FreeCalls == {c \in Calls : calls[c].pc = "idle"}
NextCall == CHOOSE c \in FreeCalls : \A d \in FreeCalls : c <= d

\* the handler once a connection is cached: the switch (sse), the callback's
\* backend call (http); conn is the value of sfConnection the handler reads
Dispatch(c, rec, conn) ==
  IF rec.name \in ToolNames
    THEN \* the request is made: the name and the arguments are read no more
         /\ calls' = [calls EXCEPT ![c] = [Idle EXCEPT !.pc = "backend"]]
         /\ sent' = BackendRequest(rec.name, rec.args, conn)
         /\ ret' = NoRet
    ELSE /\ calls' = [calls EXCEPT ![c] = Done]
         /\ sent' = NoSent
         /\ ret' = [name |-> rec.name, threw |-> NoMsg,
                    authFailed |-> FALSE, result |-> UnknownToolResult(rec.name)]

\* a tools/call message reaches the handler
StartCall(c, name, args) ==
  LET rec == [pc |-> "auth", name |-> name, args |-> args, auths |-> 0,
              tried |-> <<>>]
  IN /\ UNCHANGED <<sfConnection, connCount>>
     /\ provider' = NoProvider
     /\ IF variant = "http" /\ name \notin ToolNames
          THEN /\ calls' = [calls EXCEPT ![c] = Done]
               /\ sent' = NoSent
               /\ ret' = [name |-> name, threw |-> NoMsg,
                          authFailed |-> FALSE, result |-> SdkUnknownTool(name)]
          ELSE IF sfConnection = NoConn
            THEN \* if (!sfConnection) sfConnection = await connectToSalesforce()
                 \* connectToSalesforce runs up to the await of its branch
                 /\ calls' = [calls EXCEPT ![c] =
                      [rec EXCEPT !.auths = 1, !.tried = <<ChosenStrategy(env)>>]]
                 /\ sent' = NoSent
                 /\ ret' = NoRet
            ELSE Dispatch(c, rec, sfConnection)

\* connectToSalesforce() settles and the handler goes on
AuthDone(c) ==
  /\ Quiet
  /\ calls[c].pc = "auth"
  /\ \E ok \in BOOLEAN :
       \* the access token branch awaits nothing that can fail
       /\ ok \/ RoundTrips(calls[c].tried[1]) # <<>>
       /\ provider' = [tried |-> calls[c].tried,
                       trips |-> RoundTrips(calls[c].tried[1]),
                       outcome |-> IF ok THEN "returned" ELSE "threw"]
       /\ IF ok
            THEN /\ connCount' = connCount + 1
                 /\ sfConnection' = connCount + 1
                 /\ Dispatch(c, calls[c], connCount + 1)
            ELSE /\ calls' = [calls EXCEPT ![c] = Done]
                 /\ ret' = Ret(c, AuthMsg, TRUE, ErrorResult(AuthMsg))
                 /\ sent' = NoSent
                 /\ UNCHANGED <<sfConnection, connCount>>
  /\ last' = NoEvent
  /\ UNCHANGED <<config, sessionVars>>

\* the backend call settles
BackendDone(c) ==
  /\ Quiet
  /\ calls[c].pc = "backend"
  /\ \E ok \in BOOLEAN :
       ret' = IF ok THEN Ret(c, NoMsg, FALSE, Success)
                    ELSE Ret(c, BackendMsg, FALSE, ErrorResult(BackendMsg))
  /\ calls' = [calls EXCEPT ![c] = Done]
  /\ sent' = NoSent
  /\ provider' = NoProvider
  /\ last' = NoEvent
  /\ UNCHANGED <<config, sessionVars, sfConnection, connCount>>

\* a step that runs no tool handler
NoCall ==
  /\ sent' = NoSent /\ ret' = NoRet /\ provider' = NoProvider
  /\ UNCHANGED <<sfConnection, connCount, calls>>

\* transport.handleRequest / handlePostMessage on the transport of session sid
Route(sid, body, name, args) ==
  IF body = "tools/call" /\ tstate[transports[sid]] = "connected"
    THEN StartCall(NextCall, name, args)
    ELSE NoCall

(* --------------------- src/server.js: the /mcp routes ----------------- *)
\* the DELETE handlers of session sid suspended at close(); they are alike,
\* so they are numbered as they come and taken up again last first
Closers(sid) == {p \in inflight : p.kind = "close" /\ p.sid = sid}
Slot(sid) == Cardinality(Closers(sid)) + 1

\* the new-session branch up to await server.connect(transport)
NewSession(id, method, hdr, query, body) ==
  LET t == Len(tstate) + 1
  IN /\ transports' = Register(transports, id, t)
     /\ tstate' = Append(tstate, "created")
     /\ issued' = Append(issued, id)
     /\ inflight' = inflight \cup {[kind |-> "connect", sid |-> id, t |-> t, k |-> 1]}
     /\ last' = Event(method, "arrive", NoSid, hdr, query, body, id, "created")

\* every body taken for an initialization message
IsAnyRequest(body) == TRUE

\* isInitializeRequest(req.body)
IsInitializeRequest(body) == body = "initialize"

\* app.post('/mcp', authenticateRequest, ...)
PostMcp(hdr, query, sid, body, name, args) ==
  /\ Quiet
  /\ variant = "http"
  /\ body = "tools/call" => FreeCalls # {}
  /\ UNCHANGED config
  /\ IF ~Admitted(hdr, query)
       THEN /\ last' = Event("POST", "arrive", sid, hdr, query, body, NoSid, "401")
            /\ UNCHANGED sessionVars /\ NoCall
       ELSE IF sid # NoSid /\ Truthy(transports, sid)
         THEN IF IsTransport(transports, sid)
                THEN /\ last' = Event("POST", "arrive", sid, hdr, query, body, NoSid, "routed")
                     /\ Route(sid, body, name, args)
                     /\ UNCHANGED sessionVars
                ELSE \* transport.handleRequest is not a function
                     /\ last' = Event("POST", "arrive", sid, hdr, query, body, NoSid, "throw")
                     /\ UNCHANGED sessionVars /\ NoCall
         ELSE IF sid = NoSid /\ IsInitializeRequest(body)
           THEN /\ \E id \in FreshIds : NewSession(id, "POST", hdr, query, body)
                /\ NoCall
           ELSE IF sid # NoSid /\ ~Truthy(transports, sid)
             THEN /\ last' = Event("POST", "arrive", sid, hdr, query, body, NoSid,
                                   "400 invalid session")
                  /\ UNCHANGED sessionVars /\ NoCall
             ELSE /\ last' = Event("POST", "arrive", sid, hdr, query, body, NoSid,
                                   "400 missing session")
                  /\ UNCHANGED sessionVars /\ NoCall

\* await server.connect(transport) settles; then (http) transport.handleRequest
ConnectDone(p) ==
  /\ Quiet
  /\ p \in inflight
  /\ p.kind = "connect"
  /\ inflight' = inflight \ {p}
  /\ \E ok \in BOOLEAN :
       /\ tstate' = [tstate EXCEPT ![p.t] =
                       IF @ = "created" THEN (IF ok THEN "connected" ELSE "failed") ELSE @]
       /\ last' = Event(IF variant = "http" THEN "POST" ELSE "GET", "resume", NoSid,
                        NoString, NoString,
                        IF variant = "http" THEN "initialize" ELSE "none",
                        p.sid, IF ok THEN "connected" ELSE "throw")
  /\ UNCHANGED <<config, transports, issued>> /\ NoCall

\* app.get('/mcp', authenticateRequest, ...)
GetMcp(hdr, query, sid) ==
  /\ Quiet
  /\ variant = "http"
  /\ UNCHANGED <<config, sessionVars>> /\ NoCall
  /\ last' = Event("GET", "arrive", sid, hdr, query, "none", NoSid,
                   IF ~Admitted(hdr, query) THEN "401"
                   ELSE IF sid = NoSid \/ ~Truthy(transports, sid)
                     THEN "400 invalid session"
                   ELSE IF IsTransport(transports, sid) THEN "routed"
                   ELSE "throw")

\* app.delete('/mcp', authenticateRequest, ...) up to await close()
DeleteMcp(hdr, query, sid) ==
  /\ Quiet
  /\ variant = "http"
  /\ UNCHANGED <<config, transports, issued>> /\ NoCall
  /\ IF ~Admitted(hdr, query)
       THEN /\ last' = Event("DELETE", "arrive", sid, hdr, query, "none", NoSid, "401")
            /\ UNCHANGED <<tstate, inflight>>
       ELSE IF sid # NoSid /\ Truthy(transports, sid)
         THEN IF IsTransport(transports, sid)
                THEN /\ Cardinality(Closers(sid)) < MaxClosers
                     /\ tstate' = [tstate EXCEPT ![transports[sid]] =
                                     IF @ = "closed" THEN @ ELSE "closing"]
                     /\ inflight' = inflight \cup
                          {[kind |-> "close", sid |-> sid, t |-> transports[sid],
                            k |-> Slot(sid)]}
                     /\ last' = Event("DELETE", "arrive", sid, hdr, query, "none",
                                      NoSid, "closing")
                ELSE \* transports[sessionId].close is not a function
                     /\ last' = Event("DELETE", "arrive", sid, hdr, query, "none",
                                      NoSid, "throw")
                     /\ UNCHANGED <<tstate, inflight>>
         ELSE /\ last' = Event("DELETE", "arrive", sid, hdr, query, "none", NoSid, "200")
              /\ UNCHANGED <<tstate, inflight>>

\* await transports[sessionId].close() settles; delete; res.status(200)
CloseDone(p) ==
  /\ Quiet
  /\ p \in inflight
  /\ p.kind = "close"
  /\ p.k = Cardinality(Closers(p.sid))
  /\ inflight' = inflight \ {p}
  /\ \E ok \in BOOLEAN :
       IF ok
         THEN /\ transports' = Delete(transports, p.sid)
              /\ tstate' = [tstate EXCEPT ![p.t] = "closed"]
              /\ last' = Event("DELETE", "resume", p.sid, NoString, NoString, "none",
                               NoSid, "200")
         ELSE /\ UNCHANGED <<transports, tstate>>
              /\ last' = Event("DELETE", "resume", p.sid, NoString, NoString, "none",
                               NoSid, "throw")
  /\ UNCHANGED <<config, issued>> /\ NoCall

\* the transport of session sid reports closure (its onclose callback runs)
\* with no DELETE having called close(): server.js gives the transport no
\* onclose handler, so nothing in the program runs
McpClose(sid) ==
  /\ Quiet
  /\ variant = "http"
  /\ sid \in DOMAIN transports
  /\ tstate[transports[sid]] = "connected"
  /\ tstate' = [tstate EXCEPT ![transports[sid]] = "closed"]
  /\ last' = Event("close", "arrive", sid, NoString, NoString, "none", NoSid, "closed")
  /\ UNCHANGED <<config, transports, issued, inflight>> /\ NoCall

(* ------------- src/unnamed/part_000: /sse and /messages --------------- *)
\* app.get('/sse', ...) up to await server.connect(transport)
GetSse(hdr, query) ==
  /\ Quiet
  /\ variant = "sse"
  /\ \E id \in FreshIds : NewSession(id, "GET", hdr, query, "none")
  /\ UNCHANGED config /\ NoCall

\* res.on('close', ...)
SseClose(sid) ==
  /\ Quiet
  /\ variant = "sse"
  /\ sid \in DOMAIN transports
  /\ tstate[transports[sid]] # "closed"
  /\ transports' = Delete(transports, sid)
  /\ tstate' = [tstate EXCEPT ![transports[sid]] = "closed"]
  /\ last' = Event("close", "arrive", sid, NoString, NoString, "none", NoSid, "closed")
  /\ UNCHANGED <<config, issued, inflight>> /\ NoCall

\* app.post('/messages', ...)
PostMessages(hdr, query, sid, body, name, args) ==
  /\ Quiet
  /\ variant = "sse"
  /\ body = "tools/call" => FreeCalls # {}
  /\ UNCHANGED <<config, sessionVars>>
  /\ IF Truthy(transports, sid)
       THEN IF IsTransport(transports, sid)
              THEN /\ last' = Event("POST", "arrive", sid, hdr, query, body, NoSid, "routed")
                   /\ Route(sid, body, name, args)
              ELSE \* transport.handlePostMessage is not a function
                   /\ last' = Event("POST", "arrive", sid, hdr, query, body, NoSid, "throw")
                   /\ NoCall
       ELSE /\ last' = Event("POST", "arrive", sid, hdr, query, body, NoSid,
                             "400 invalid session")
            /\ NoCall

(* -------------------------------- Next -------------------------------- *)
\* the credentials are read by the API key gate only
CredsRead == IF variant = "http" /\ apiKey # NoString THEN Creds
             ELSE {<<NoString, NoString>>}

\* The routes and the session table. A message that is not an initialization
\* is carried as "other": what the tool handlers do with it is followed in
\* SpecTools, and no tool handler reads or writes the session table.
Next ==
  \/ \E cr \in CredsRead, sid \in HeaderSids, body \in Bodies \ {"tools/call"} :
       PostMcp(cr[1], cr[2], sid, body, "none", NoArgs)
  \/ \E cr \in CredsRead, sid \in HeaderSids : GetMcp(cr[1], cr[2], sid)
  \/ \E cr \in CredsRead, sid \in HeaderSids : DeleteMcp(cr[1], cr[2], sid)
  \/ \E p \in inflight : CloseDone(p)
  \/ \E sid \in UUIDs : McpClose(sid)
  \/ \E cr \in CredsRead : GetSse(cr[1], cr[2])
  \/ \E cr \in CredsRead, sid \in HeaderSids, body \in Bodies \ {"tools/call"} :
       PostMessages(cr[1], cr[2], sid, body, "none", NoArgs)
  \/ \E sid \in UUIDs : SseClose(sid)
  \/ \E p \in inflight : ConnectDone(p)
  \/ Observed

Spec == Init /\ [][Next]_vars

\* The tool handlers and the connection cache, with the routes that open up
\* to ToolSessions sessions and carry messages into them, and no API key
\* configured. DELETE /mcp is followed in Spec.
InitTools ==
  /\ variant \in Variants
  /\ apiKey = NoString
  /\ env \in Envs
  /\ Start

\* a tools/call message with its name and arguments, or another message
Messages ==
  UNION {{<<"tools/call", name, args>> : args \in ArgsOf(name)} : name \in CallNames}
  \cup {<<body, "none", NoArgs>> : body \in Bodies \ {"tools/call"}}

ToolPostMcp ==
  /\ Quiet
  /\ variant = "http"
  /\ \E sid \in HeaderSids, m \in Messages :
       /\ PostMcp(NoString, NoString, sid, m[1], m[2], m[3])
       /\ Len(issued') <= ToolSessions

ToolPostMessages ==
  /\ Quiet
  /\ variant = "sse"
  /\ \E sid \in HeaderSids, m \in Messages :
       PostMessages(NoString, NoString, sid, m[1], m[2], m[3])

ToolGetSse == GetSse(NoString, NoString) /\ Len(issued') <= ToolSessions

NextTools ==
  \/ ToolPostMcp
  \/ ToolGetSse
  \/ ToolPostMessages
  \/ \E sid \in UUIDs : SseClose(sid)
  \/ \E p \in inflight : ConnectDone(p)
  \/ \E c \in Calls : AuthDone(c)
  \/ \E c \in Calls : BackendDone(c)
  \/ Observed

SpecTools == InitTools /\ [][NextTools]_vars

\* The search_records handler on its own: one tool call at a time, the search
\* term and the objects list drawn from SearchTerms and ObjectLists.
InitSearch ==
  /\ variant \in Variants
  /\ apiKey = NoString
  /\ env \in Envs
  /\ Start

SearchMessages ==
  {<<"tools/call", "search_records", [NoArgs EXCEPT !.searchTerm = t, !.objects = o]>> :
     t \in SearchTerms, o \in ObjectLists \cup {NoList}}
  \cup {<<"initialize", "none", NoArgs>>}

NoCallRunning == \A c \in Calls : calls[c].pc \in {"idle", "done"}

SearchPostMcp ==
  /\ Quiet
  /\ variant = "http"
  /\ NoCallRunning
  /\ \E sid \in HeaderSids, m \in SearchMessages :
       /\ PostMcp(NoString, NoString, sid, m[1], m[2], m[3])
       /\ Len(issued') <= ToolSessions

SearchPostMessages ==
  /\ Quiet
  /\ variant = "sse"
  /\ NoCallRunning
  /\ \E sid \in HeaderSids, m \in SearchMessages :
       PostMessages(NoString, NoString, sid, m[1], m[2], m[3])

NextSearch ==
  \/ SearchPostMcp
  \/ ToolGetSse
  \/ SearchPostMessages
  \/ \E p \in inflight : ConnectDone(p)
  \/ \E c \in Calls : AuthDone(c)
  \/ \E c \in Calls : BackendDone(c)
  \/ Observed

SpecSearch == InitSearch /\ [][NextSearch]_vars

(* ============================== claims ================================ *)
\* the request of event ev presents the configured secret as the API key
\* gate's documentation asks: a bearer Authorization header, or the api_key
\* query parameter with no Authorization header
Presents(ev) ==
  \/ variant = "sse"
  \/ apiKey = NoString
  \/ ev.hdr = <<Bearer>> \o apiKey
  \/ ev.hdr = NoString /\ ev.query = apiKey

\* a termination of the session has begun: DELETE called close(), or the
\* SSE stream closed (the i-th identifier issued names the i-th transport)
Terminated(sid) ==
  \E i \in 1..Len(issued) : issued[i] = sid /\ tstate[i] \in {"closing", "closed"}

NoDuplicateIds == \A i, j \in 1..Len(issued) : i # j => issued[i] # issued[j]

CreatesSession(ev) ==
  /\ ev.step = "arrive"
  /\ \/ variant = "http" /\ ev.method = "POST" /\ ev.sid = NoSid /\ ev.body = "initialize"
     \/ variant = "sse" /\ ev.method = "GET"

\* C1: tool calls that start while no connection is cached and interleave at
\* their awaits issue connectToSalesforce once: at no time are two
\* authentications in flight.
C1_SingleAuthentication ==
  Cardinality({c \in Calls : calls[c].pc = "auth"}) <= 1

\* C2: an initialization with no session header registers its transport under
\* an identifier never issued before, no identifier is issued twice, and a
\* later POST carrying an issued identifier whose session is not terminated is
\* routed into the transport.
C2_FreshIdThenRouted ==
  [][/\ NoDuplicateIds'
     /\ (CreatesSession(last') /\ Presents(last') /\ last' # last) =>
           /\ last'.outcome = "created"
           /\ last'.assigned \notin Range(issued)
           /\ last'.assigned \in DOMAIN transports'
           /\ last'.assigned \notin DOMAIN transports
     /\ (/\ last'.step = "arrive" /\ last'.method = "POST"
         /\ last'.sid \in Range(issued) /\ ~Terminated(last'.sid)
         /\ Presents(last')) =>
           /\ last'.outcome = "routed"
           /\ last'.sid \in DOMAIN transports]_vars

C2_Witness ==
  /\ Len(issued) = 2
  /\ last.method = "POST" /\ last.outcome = "routed"
  /\ last.sid = issued[1]
  /\ DOMAIN transports = {issued[1], issued[2]}

\* C3: a POST or a stream-attach GET carrying an identifier that is not in the
\* session table is answered with the invalid-session error and changes
\* neither the table nor any transport.
C3_UnknownIdRejected ==
  [][(/\ last'.step = "arrive" /\ last'.method \in {"POST", "GET"}
      /\ last'.sid # NoSid /\ last'.sid \notin DOMAIN transports
      /\ Presents(last')) =>
        /\ last'.outcome = "400 invalid session"
        /\ transports' = transports
        /\ tstate' = tstate]_vars

\* C4: every termination request reports success, also the second of two for
\* one identifier and one for an identifier not in the table; the table has no
\* entry for the identifier once a termination has completed, and a
\* termination of an identifier not in the table changes nothing.
C4_TerminateIdempotent ==
  [][(last'.method = "DELETE" /\ Presents(last')) =>
        /\ last'.outcome \in {"closing", "200"}
        /\ last'.step = "resume" => last'.sid \notin DOMAIN transports'
        /\ (last'.step = "arrive" /\ last'.sid \notin DOMAIN transports) =>
              /\ last'.outcome = "200"
              /\ transports' = transports
              /\ tstate' = tstate]_vars

\* the request of event ev carries the configured secret nowhere: not as the
\* Authorization header, with or without the scheme, and not as api_key
NonMatching(ev) ==
  /\ ev.hdr # apiKey
  /\ \A i \in 1..Len(ev.hdr) :
       SubSeq(ev.hdr, 1, i - 1) \o SubSeq(ev.hdr, i + 1, Len(ev.hdr)) # apiKey
  /\ ev.query # apiKey

\* C5: with a shared secret configured, a request to a session route that
\* presents no secret or a non-matching one is answered 401, and the session
\* table, the transports and the connection cache are unchanged.
C5_GateBeforeSessions ==
  [][(/\ apiKey # NoString
      /\ last'.step = "arrive" /\ last'.method \in {"POST", "GET", "DELETE"}
      /\ NonMatching(last')) =>
        /\ last'.outcome = "401"
        /\ UNCHANGED <<transports, tstate, issued, inflight, sfConnection>>]_vars

\* C6: the payload update_record sends is the caller's data with key Id set to
\* recordId, also when the data has an Id of its own.
C6_UpdatePayloadId ==
  sent.op = "update" => sent.payload = [sent.data EXCEPT !["Id"] = sent.recordId]

\* C7: a tool call under an unregistered name returns an error-flagged result
\* whose text contains the name, whatever the state of the connection cache.
C7_UnknownToolNamed ==
  ret.name \in UnknownNames =>
    /\ ret.result.isError
    /\ ret.name \in Range(ret.result.text)

\* C8: when the provider or the backend call of a tool throws, the call
\* returns an error-flagged result carrying the exception's message, and the
\* session table, the transports and the cached connection are as before.
C8_FailureBecomesResult ==
  [][ret'.threw # NoMsg =>
        /\ ret'.result.isError
        /\ ret'.threw \in Range(ret'.result.text)
        /\ UNCHANGED <<transports, tstate, issued, inflight>>
        /\ sfConnection' = sfConnection]_vars

C8_Witness ==
  /\ ret.threw = BackendMsg
  /\ ret.result.isError
  /\ sfConnection # NoConn
  /\ \E sid \in DOMAIN transports : tstate[transports[sid]] = "connected"
  /\ \E c \in Calls : calls[c].pc = "idle"

\* C9: a tool call whose authentication fails makes no second attempt and
\* returns with the connection cache unset, and a tool call that finds the
\* cache unset issues an authentication.
C9_FailedAuthLeavesCacheUnset ==
  [][\A c \in Calls :
       /\ (calls[c].pc = "auth" /\ calls'[c].pc = "done" /\ ret'.authFailed) =>
             /\ calls[c].auths = 1
             /\ sfConnection' = NoConn
       /\ (/\ calls[c].pc = "idle" /\ calls'[c].pc \notin {"idle", "done"}
           /\ sfConnection = NoConn) =>
             calls'[c].pc = "auth" /\ calls'[c].auths = 1]_vars

\* C10: once the cache holds a connection object it holds that object in
\* every later state.
C10_CachedConnectionKept ==
  [][sfConnection # NoConn => sfConnection' = sfConnection]_vars

\* C11: every call of the connection provider attempts one credential
\* strategy: refresh token (with the identity round trip) when a refresh token
\* is configured, else access token (with no round trip) when an access token
\* is configured, else the password login; a call whose strategy fails has
\* attempted no other.
C11_OneStrategyByPrecedence ==
  /\ \A c \in Calls : calls[c].pc = "auth" => Len(calls[c].tried) = 1
  /\ provider.outcome # "none" =>
       /\ Len(provider.tried) = 1
       /\ env.refreshToken =>
            provider.tried = <<"refresh">> /\ provider.trips = <<"identity">>
       /\ (~env.refreshToken /\ env.accessToken) =>
            provider.tried = <<"access">> /\ provider.trips = <<>>
       /\ (~env.refreshToken /\ ~env.accessToken) =>
            provider.tried = <<"password">> /\ provider.trips = <<"login">>

C11_Witness ==
  /\ env.refreshToken /\ env.accessToken
  /\ provider.outcome = "threw"
  /\ provider.tried = <<"refresh">>
  /\ ret.authFailed

\* C12: search_records with no objects argument sends a SOSL string with
\* Account, Contact, Opportunity in that order after RETURNING; with an
\* objects list of any length it sends the caller's names, in the caller's
\* order, joined by commas; the search term stands between the braces after
\* FIND.
C12_SoslObjects ==
  sent.op = "search" =>
    LET names == IF sent.objects = NoList
                   THEN <<"Account", "Contact", "Opportunity">>
                   ELSE sent.objects
        n == Len(names)
    IN /\ Len(sent.sosl) = 3 + (IF n = 0 THEN 0 ELSE 2 * n - 1)
       /\ sent.sosl[1] = "FIND {"
       /\ sent.sosl[2] = sent.searchTerm
       /\ sent.sosl[3] = "} IN ALL FIELDS RETURNING "
       /\ \A i \in 1..n : sent.sosl[2 + 2 * i] = names[i]
       /\ \A i \in 1..(n - 1) : sent.sosl[3 + 2 * i] = ", "

C12_Witness ==
  /\ sent.op = "search"
  /\ sent.objects = <<"Lead", "Account">>
  /\ sent.sosl = <<"FIND {", "a}b", "} IN ALL FIELDS RETURNING ", "Lead", ", ", "Account">>

\* C13: a POST with no session identifier whose body is not an initialization
\* is answered with a 400 error and constructs no transport and changes no
\* table entry; and a tool call is dispatched only on a session that an
\* earlier initialization created.
C13_NoSessionNoDispatch ==
  [][/\ (/\ last'.step = "arrive" /\ last'.method = "POST"
          /\ last'.sid = NoSid /\ last'.body # "initialize") =>
            /\ last'.outcome \in {"400 missing session", "400 invalid session"}
            /\ variant = "http" => last'.outcome = "400 missing session"
            /\ UNCHANGED <<transports, tstate, issued, inflight, calls>>
     /\ \A c \in Calls :
          (calls[c].pc = "idle" /\ calls'[c].pc # "idle") =>
            /\ last'.sid \in Range(issued)
            /\ last'.sid \in DOMAIN transports]_vars

C13_Witness ==
  /\ last.method = "POST" /\ last.sid = NoSid /\ last.body = "tools/call"
  /\ last.outcome = "400 missing session"
  /\ \E sid \in DOMAIN transports : tstate[transports[sid]] = "connected"
  /\ \E c \in Calls : calls[c].pc = "done"

\* the session is in the table and no termination of it has begun
Open(sid) == sid \in DOMAIN transports /\ ~Terminated(sid)

\* C14: a POST carrying the identifier of an open session is routed into the
\* session's transport whatever its body, an initialization included, and
\* issues no identifier, constructs no transport and leaves the table as it is.
C14_OpenSessionRouted ==
  [][(/\ last'.step = "arrive" /\ last'.method = "POST"
      /\ Open(last'.sid) /\ Presents(last')) =>
        /\ last'.outcome = "routed"
        /\ UNCHANGED <<transports, tstate, issued, inflight>>]_vars

C14_Witness ==
  /\ last.step = "arrive" /\ last.method = "POST" /\ last.body = "initialize"
  /\ Open(last.sid)
  /\ last.outcome = "routed"
  /\ Len(issued) = 1

\* the transport of the session has closed
Closed(sid) ==
  \E i \in 1..Len(issued) : issued[i] = sid /\ tstate[i] = "closed"

\* C15: when the transport of an open session reports closure with no
\* termination request, the session's entry leaves the table, and a later POST
\* or GET carrying the identifier is answered as an unknown session.
C15_ClosureRemovesEntry ==
  [][/\ (last'.method = "close" /\ last'.sid \in DOMAIN transports) =>
            last'.sid \notin DOMAIN transports'
     /\ (/\ last'.step = "arrive" /\ last'.method \in {"POST", "GET"}
         /\ Closed(last'.sid) /\ Presents(last')) =>
            last'.outcome = "400 invalid session"]_vars

\* C16: a step that is not a termination or a transport closure of session B
\* (a request addressed to another identifier, a rejected request, an
\* initialization of a new session) leaves B's entry in the table, bound to
\* the same transport, and a step that does not concern B leaves B's
\* transport as it was.
C16_OtherSessionsUntouched ==
  [][\A B \in DOMAIN transports :
       /\ ~(last'.sid = B /\ last'.method \in {"DELETE", "close"}) =>
             /\ B \in DOMAIN transports'
             /\ transports'[B] = transports[B]
       /\ (last'.sid # B /\ last'.assigned # B) =>
             tstate'[transports[B]] = tstate[transports[B]]]_vars

C16_Witness ==
  /\ Len(issued) = 2
  /\ last.method = "DELETE" /\ last.step = "resume" /\ last.outcome = "200"
  /\ last.sid = issued[1]
  /\ DOMAIN transports = {issued[2]}
  /\ tstate[2] = "connected"

\* C17: the gate lets a request through to the session logic exactly when no
\* secret is configured, or the Authorization header is the secret in the
\* bearer scheme, or the api_key query parameter is the secret (whatever the
\* header holds).
C17_GateAdmitsIff ==
  [][(/\ variant = "http"
      /\ last'.step = "arrive" /\ last'.method \in {"POST", "GET", "DELETE"}) =>
        (last'.outcome # "401" <=>
           \/ apiKey = NoString
           \/ last'.hdr = <<Bearer>> \o apiKey
           \/ last'.query = apiKey)]_vars

\* a DELETE has called close() on the transport of the session
CloseInvoked(sid) ==
  \E i \in 1..Len(issued) :
    /\ issued[i] = sid
    /\ \/ tstate[i] = "closing"
       \/ tstate[i] = "closed" /\ sid \notin DOMAIN transports

\* C18: once a DELETE has called close() on a session's transport, a POST or
\* GET carrying the identifier that arrives afterwards, also while close() is
\* still pending, is answered as an unknown session and not routed.
C18_NoRouteIntoClosing ==
  [][(/\ variant = "http"
      /\ last'.step = "arrive" /\ last'.method \in {"POST", "GET"}
      /\ CloseInvoked(last'.sid) /\ Presents(last')) =>
        last'.outcome = "400 invalid session"]_vars

\* C19: every entry of the session table refers to a transport whose
\* server.connect has succeeded or is still pending: when server.connect
\* fails, the table has no entry for the identifier just allocated.
C19_CreationAllOrNothing ==
  \A sid \in DOMAIN transports : tstate[transports[sid]] # "failed"

\* C20: a DELETE for a session in the table ends, when its close() settles,
\* with the entry removed and a success response, also when close() fails.
C20_TerminationRemovesEntry ==
  [][(last'.method = "DELETE" /\ last'.step = "resume" /\ last' # last) =>
        /\ last'.outcome = "200"
        /\ last'.sid \notin DOMAIN transports']_vars
====
